---------------------------- MODULE Spec2Model ----------------------------
(***************************************************************************)
(* A model of the status/completion layer (result/completion.rs) and of    *)
(* the PCI I/O protocol wrapper (proto/pci.rs): typed reads and writes,    *)
(* flush, and the DMA mapping lifecycle (map, unmap, map_ex, Drop for      *)
(* MappingEx).  The firmware call table is the environment: each call      *)
(* returns a status and writes its out-parameters nondeterministically.    *)
(***************************************************************************)
EXTENDS Integers, Sequences, FiniteSets, TLC

VARIABLES
    cur,        \* the Completion value the caller holds, or None
    out,        \* the last Completion operation: its name, inputs and result
    logs,       \* the diagnostic sink: the statuses passed to warn!, in order
    panicked,   \* NoPanic, or the panic that ended the call path
    fwActive,   \* firmware side: the mapping tokens of the active bindings
    held,       \* caller side: the Mapping values the caller owns
    mex,        \* caller side: the live MappingEx objects
    heap,       \* the host addresses of the live Box allocations
    call,       \* the last firmware call: function, arguments, out-parameters
    ret,        \* what the last wrapper operation returned
    events      \* what the last wrapper operation did, in program order

vars == <<cur, out, logs, panicked, fwActive, held, mex, heap, call, ret, events>>

pciVars == <<fwActive, held, mex, heap, call, ret, events>>

----------------------------------------------------------------------------
(* Bounds of the model. *)

\* The firmware returns the warning codes 1..MaxWarning.
MaxWarning == 2
\* The firmware returns the error codes ERROR_BIT + 1 .. ERROR_BIT + MaxError.
MaxError == 1
\* Payloads of a Completion range over 0..MaxVal.
MaxVal == 1
\* The diagnostic sink keeps at most MaxLogs records.
MaxLogs == 2

----------------------------------------------------------------------------
(* Status: the tri-state completion code. *)

\* The status word is as wide as its codes need: the error bit is its high
\* bit, above every warning code and every error number.
SUCCESS == 0
ERROR_BIT == 2 ^ (MaxWarning + MaxError)

Status == {SUCCESS} \cup (1 .. MaxWarning) \cup {ERROR_BIT + n : n \in 1 .. MaxError}

is_success(status) == status = SUCCESS
is_error(status) == status >= ERROR_BIT

Warnings == {s \in Status : ~is_error(s) /\ ~is_success(s)}
Errors == {s \in Status : is_error(s)}

\* The value () of Completion<()> and Result<()>.
UNIT == 0
Values == 0 .. MaxVal

None == [none |-> TRUE]
NoPanic == [panic |-> "none"]

----------------------------------------------------------------------------
(* Completion<T> (result/completion.rs).  An operation that can panic or   *)
(* write to the diagnostic sink returns a record of its value, the panic   *)
(* it raised (NoPanic if none) and the sink after it.                      *)

built_with_error(error) ==
    [panic |-> "Completion was incorrectly built with error status", status |-> error]

unwrap_failed(msg, warning) == [panic |-> msg, status |-> warning]

log_warning(sink, warning) == Append(sink, warning)

Completion_new_unchecked(status, result) ==
    [panic |-> NoPanic, value |-> [status |-> status, result |-> result]]

Completion_new(status, result) ==
    IF is_error(status)
    THEN [panic |-> built_with_error(status), value |-> None]
    ELSE [panic |-> NoPanic, value |-> [status |-> status, result |-> result]]

Completion_status(c) == c.status

Completion_split(c) == <<c.status, c.result>>

ignore_warning(c) == c.result

Completion_log_silent(c, sink) == [value |-> c.result, logs |-> sink]

Completion_log(c, sink) ==
    [value |-> c.result,
     logs |-> IF c.status # SUCCESS THEN log_warning(sink, c.status) ELSE sink]

Completion_unwrap(c) ==
    IF c.status # SUCCESS
    THEN [panic |-> unwrap_failed("Called Completion::unwrap() with a warning status",
                                  c.status),
          value |-> None]
    ELSE [panic |-> NoPanic, value |-> c.result]

Completion_expect(c, msg) ==
    IF c.status # SUCCESS
    THEN [panic |-> unwrap_failed(msg, c.status), value |-> None]
    ELSE [panic |-> NoPanic, value |-> c.result]

Completion_map(c, f) == [status |-> c.status, result |-> f[c.result]]

with_status(c, extra_status, sink) ==
    IF is_success(extra_status)
    THEN [panic |-> NoPanic, value |-> c, logs |-> sink]
    ELSE LET logged == Completion_log(c, sink)
             built == Completion_new(extra_status, logged.value)
         IN  [panic |-> built.panic, value |-> built.value, logs |-> logged.logs]

From_Status(status) == Completion_new(status, UNIT)

From_T(result) == Completion_new(SUCCESS, result)

----------------------------------------------------------------------------
(* The caller of the Completion API: one action per method.  A panic ends  *)
(* the call path: no action is enabled after it.                           *)

Running == panicked = NoPanic

Op(name, self, arg, value) ==
    [op |-> name, self |-> self, arg |-> arg, logs0 |-> logs, value |-> value]

\* A constructor call: the Completion it built becomes the caller's, or it
\* panicked and built none.
Built(name, arg, built) ==
    /\ panicked' = built.panic
    /\ cur' = IF built.panic = NoPanic THEN built.value ELSE cur
    /\ out' = Op(name, cur, arg, built.value)
    /\ UNCHANGED logs

CNew ==
    \E s \in Status, v \in Values :
        /\ Running
        /\ Built("new", <<s, v>>, Completion_new(s, v))
        /\ UNCHANGED pciVars

CFromStatus ==
    \E s \in Status :
        /\ Running
        /\ Built("from_status", <<s>>, From_Status(s))
        /\ UNCHANGED pciVars

CFromValue ==
    \E v \in Values :
        /\ Running
        /\ Built("from", <<v>>, From_T(v))
        /\ UNCHANGED pciVars

CStatus ==
    /\ Running /\ cur # None
    /\ out' = Op("status", cur, <<>>, Completion_status(cur))
    /\ UNCHANGED <<cur, logs, panicked>>
    /\ UNCHANGED pciVars

CSplit ==
    /\ Running /\ cur # None
    /\ out' = Op("split", cur, <<>>, Completion_split(cur))
    /\ cur' = None
    /\ UNCHANGED <<logs, panicked>>
    /\ UNCHANGED pciVars

CIgnoreWarning ==
    /\ Running /\ cur # None
    /\ out' = Op("ignore_warning", cur, <<>>, ignore_warning(cur))
    /\ cur' = None
    /\ UNCHANGED <<logs, panicked>>
    /\ UNCHANGED pciVars

CLog ==
    /\ Running /\ cur # None
    /\ Len(logs) < MaxLogs
    /\ LET r == Completion_log(cur, logs) IN
        /\ out' = Op("log", cur, <<>>, r.value)
        /\ logs' = r.logs
    /\ cur' = None
    /\ UNCHANGED panicked
    /\ UNCHANGED pciVars

CUnwrap ==
    /\ Running /\ cur # None
    /\ LET r == Completion_unwrap(cur) IN
        /\ out' = Op("unwrap", cur, <<>>, r.value)
        /\ panicked' = r.panic
    /\ cur' = None
    /\ UNCHANGED logs
    /\ UNCHANGED pciVars

CExpect ==
    \E msg \in {"expected success"} :
        /\ Running /\ cur # None
        /\ LET r == Completion_expect(cur, msg) IN
            /\ out' = Op("expect", cur, <<msg>>, r.value)
            /\ panicked' = r.panic
        /\ cur' = None
        /\ UNCHANGED logs
        /\ UNCHANGED pciVars

CMap ==
    \E f \in [Values -> Values] :
        /\ Running /\ cur # None
        /\ cur' = Completion_map(cur, f)
        /\ out' = Op("map", cur, <<f>>, cur')
        /\ UNCHANGED <<logs, panicked>>
        /\ UNCHANGED pciVars

CWithStatus ==
    \E extra_status \in Status :
        /\ Running /\ cur # None
        /\ Len(logs) < MaxLogs
        /\ LET r == with_status(cur, extra_status, logs) IN
            /\ out' = Op("with_status", cur, <<extra_status>>, r.value)
            /\ cur' = IF r.panic = NoPanic THEN r.value ELSE None
            /\ logs' = r.logs
            /\ panicked' = r.panic
        /\ UNCHANGED pciVars

----------------------------------------------------------------------------
(* Status into Result (result/status.rs, result/mod.rs, result/error.rs).  *)
(* Result<T, E> is Ok(Completion<T>) or Err(Error<E>), the error holding   *)
(* the status and the error data.  into_with calls exactly one of its two  *)
(* closures: val on a non-error status, err on an error status.            *)

Ok(completion) == [ok |-> TRUE, completion |-> completion]
Err(status, data) == [ok |-> FALSE, status |-> status, data |-> data]

val_called(status) == ~is_error(status)

into_with(status, val, errdata) ==
    IF ~is_error(status)
    THEN Ok(Completion_new(status, val).value)
    ELSE Err(status, errdata)

into_with_val(status, val) == into_with(status, val, UNIT)
into_with_err(status, errdata) == into_with(status, UNIT, errdata)
into(status) == into_with(status, UNIT, UNIT)

----------------------------------------------------------------------------
(* More bounds of the model. *)

\* The firmware hands out the mapping tokens 1..MaxTokens.
MaxTokens == 2
\* A map call asks for 1..MaxLen bytes.
MaxLen == 2
\* A slice passed to a read or write holds 0..MaxCount elements.
MaxCount == 1

NULL == 0
Tokens == 1 .. MaxTokens
HostAddrs == {1, 2}
DevAddrs == {1, 2}
Lengths == 1 .. MaxLen

IoOperation == {"BusMasterRead", "BusMasterWrite", "BusMasterCommonBuffer"}

\* ToIoWidth::IO_WIDTH of the element types u8, u16, u32, as IoWidth values.
ElementTypes == {"u8", "u16", "u32"}
IO_WIDTH(T) == CASE T = "u8" -> 0 [] T = "u16" -> 1 [] T = "u32" -> 2

\* IoRegister: R0 and PASS_THROUGH_BAR stand for the seven registers.
IoRegister == {0, 255}
Offsets == {0, 44}

----------------------------------------------------------------------------
(* The firmware call table (the environment).  map returns a status and    *)
(* writes its three out-parameters; on a non-error status it has created a *)
(* binding under a token no active binding uses, and granted at most the   *)
(* requested length.  On an error status it created none and left the      *)
(* out-parameters as they were.  unmap releases the binding unless it      *)
(* returns an error status.                                                *)

FwMapOutcomes(num_bytes) ==
    [status : Status \ Errors, mapping : Tokens \ fwActive,
     device_addr : DevAddrs, num_bytes : 1 .. num_bytes]
    \cup
    [status : Errors, mapping : {NULL}, device_addr : {0}, num_bytes : {num_bytes}]

FwActiveAfterMap(fw) ==
    IF is_error(fw.status) THEN fwActive ELSE fwActive \cup {fw.mapping}

FwActiveAfterUnmap(mapping, status) ==
    IF is_error(status) THEN fwActive ELSE fwActive \ {mapping}

----------------------------------------------------------------------------
(* PciIO::map, PciIO::unmap (proto/pci.rs).  fw is what the firmware map   *)
(* function returned and wrote; status is what the firmware unmap function *)
(* returned.                                                               *)

Mapping(addr, device_addr, size) ==
    [addr |-> addr, device_addr |-> device_addr, size |-> size]

Mapping_size(m) == m.size
Mapping_device_address(m) == m.device_addr

\* Result::map leaves an Err as it is and applies its closure to the
\* Completion of an Ok.
PciIO_map_requested_size(op, host_addr, num_bytes, fw) ==
    LET r == into_with_err(fw.status, UNIT) IN
    IF r.ok
    THEN Ok(Completion_map(r.completion,
                [u \in {UNIT} |-> Mapping(fw.mapping, fw.device_addr, num_bytes)]))
    ELSE r

PciIO_map_host_addr(op, host_addr, num_bytes, fw) ==
    LET r == into_with_err(fw.status, UNIT) IN
    IF r.ok
    THEN Ok(Completion_map(r.completion,
                [u \in {UNIT} |-> Mapping(host_addr, fw.device_addr, fw.num_bytes)]))
    ELSE r

PciIO_map(op, host_addr, num_bytes, fw) ==
    LET out_mapping == fw.mapping
        out_num_bytes == fw.num_bytes
        out_device_addr == fw.device_addr
        r == into_with_err(fw.status, UNIT)
    IN  IF r.ok
        THEN Ok(Completion_map(r.completion,
                    [u \in {UNIT} |->
                        Mapping(out_mapping, out_device_addr, out_num_bytes)]))
        ELSE r

PciIO_unmap_rebuilt(mapping, status) ==
    into_with_err(status, Mapping(mapping.addr, 0, 0))

PciIO_unmap_warning_as_error(mapping, status) ==
    IF is_success(status) THEN into_with_err(status, mapping) ELSE Err(status, mapping)

PciIO_unmap(mapping, status) == into_with_err(status, mapping)

MapCall(op, host_addr, num_bytes, fw) ==
    [fn |-> "map", op |-> op, host_addr |-> host_addr, num_bytes |-> num_bytes,
     out |-> fw, status |-> fw.status]

\* unmap hands the firmware the address the Mapping holds.
UnmapCall(mapping, status) == [fn |-> "unmap", mapping |-> mapping, status |-> status]

\* The caller maps a buffer and keeps the Mapping it is given.
Map ==
    \E op \in IoOperation, host_addr \in HostAddrs, num_bytes \in Lengths :
        \E fw \in FwMapOutcomes(num_bytes) :
            LET r == PciIO_map(op, host_addr, num_bytes, fw) IN
            /\ Running
            /\ call' = MapCall(op, host_addr, num_bytes, fw)
            /\ fwActive' = FwActiveAfterMap(fw)
            /\ held' = IF r.ok THEN held \cup {r.completion.result} ELSE held
            /\ ret' = [op |-> "map", result |-> r]
            /\ events' = <<>>
            /\ UNCHANGED <<cur, out, logs, panicked, mex, heap>>

\* The caller moves a Mapping it holds into unmap, and keeps the Mapping an
\* error result hands back.
Unmap ==
    \E mapping \in held, status \in Status :
        LET r == PciIO_unmap(mapping, status) IN
        /\ Running
        /\ call' = UnmapCall(mapping.addr, status)
        /\ fwActive' = FwActiveAfterUnmap(mapping.addr, status)
        /\ held' = (held \ {mapping}) \cup (IF r.ok THEN {} ELSE {r.data})
        /\ ret' = [op |-> "unmap", arg |-> mapping, result |-> r]
        /\ events' = <<>>
        /\ UNCHANGED <<cur, out, logs, panicked, mex, heap>>

----------------------------------------------------------------------------
(* MappingEx: a Mapping together with the Box it maps (proto/pci.rs).      *)

Some(x) == [some |-> x]

MappingEx(mapping, buffer) == [mapping |-> mapping, buffer |-> buffer]

unwrap_none == [panic |-> "called Option::unwrap() on a None value"]

MappingEx_mapping(self) ==
    IF self.mapping = None
    THEN [panic |-> unwrap_none, value |-> None]
    ELSE [panic |-> NoPanic, value |-> self.mapping.some]

MappingEx_device_address(self) ==
    IF self.mapping = None
    THEN [panic |-> unwrap_none, value |-> None]
    ELSE [panic |-> NoPanic, value |-> Mapping_device_address(self.mapping.some)]

MappingEx_get(self) == self.buffer

\* map_ex: buffer is the address of the Box it allocates, num_bytes the size
\* of T.  An error result drops the Box.
PciIO_map_ex(op, num_bytes, buffer, fw) ==
    LET host_addr == buffer
        r == PciIO_map(op, host_addr, num_bytes, fw)
    IN  IF r.ok
        THEN Ok(From_T(MappingEx(Some(ignore_warning(r.completion)), buffer)).value)
        ELSE r

Alloc(addr) == [ev |-> "alloc", addr |-> addr]
Dealloc(addr) == [ev |-> "dealloc", addr |-> addr]
FwUnmap(mapping, status) == [ev |-> "unmap", mapping |-> mapping, status |-> status]

\* Result::expect in drop: an Err panics with the message and the error.
expect_failed(msg, error) == [panic |-> msg, error |-> error]

Drop_MappingEx_free_first(self, status, unwinds) ==
    [events |-> <<Dealloc(self.buffer), FwUnmap(self.mapping.some.addr, status)>>,
     panic |-> IF PciIO_unmap(self.mapping.some, status).ok
               THEN NoPanic
               ELSE expect_failed("failed to unmap something",
                                  PciIO_unmap(self.mapping.some, status))]

\* The drop of a MappingEx: Drop::drop, then the drop of its fields, which
\* frees the Box.  status is what the firmware unmap function returns.  When
\* drop panics, the fields are dropped if the build unwinds (unwinds) and are
\* not if it aborts.
Drop_MappingEx(self, status, unwinds) ==
    IF self.mapping # None
    THEN LET mapping == self.mapping.some
             r == PciIO_unmap(mapping, status)
             panic == IF r.ok THEN NoPanic
                      ELSE expect_failed("failed to unmap something", r)
         IN  [events |-> <<FwUnmap(mapping.addr, status)>>
                         \o (IF panic = NoPanic \/ unwinds
                             THEN <<Dealloc(self.buffer)>> ELSE <<>>),
              panic |-> panic]
    ELSE [events |-> <<Dealloc(self.buffer)>>, panic |-> NoPanic]

Freed(evs) == {evs[i].addr : i \in {j \in DOMAIN evs : evs[j].ev = "dealloc"}}

MapEx ==
    \E op \in IoOperation, num_bytes \in Lengths, buffer \in HostAddrs \ heap :
        \E fw \in FwMapOutcomes(num_bytes) :
            LET r == PciIO_map_ex(op, num_bytes, buffer, fw) IN
            /\ Running
            /\ call' = MapCall(op, buffer, num_bytes, fw)
            /\ fwActive' = FwActiveAfterMap(fw)
            /\ mex' = IF r.ok THEN mex \cup {r.completion.result} ELSE mex
            /\ heap' = IF r.ok THEN heap \cup {buffer} ELSE heap
            /\ events' = <<Alloc(buffer)>> \o (IF r.ok THEN <<>> ELSE <<Dealloc(buffer)>>)
            /\ ret' = [op |-> "map_ex", result |-> r]
            /\ UNCHANGED <<cur, out, logs, panicked, held>>

ExMapping ==
    \E self \in mex :
        LET r == MappingEx_mapping(self) IN
        /\ Running
        /\ ret' = [op |-> "mapping", arg |-> self, result |-> r.value]
        /\ panicked' = r.panic
        /\ events' = <<>>
        /\ UNCHANGED <<cur, out, logs, fwActive, held, mex, heap, call>>

ExDeviceAddress ==
    \E self \in mex :
        LET r == MappingEx_device_address(self) IN
        /\ Running
        /\ ret' = [op |-> "device_address", arg |-> self, result |-> r.value]
        /\ panicked' = r.panic
        /\ events' = <<>>
        /\ UNCHANGED <<cur, out, logs, fwActive, held, mex, heap, call>>

ExGet ==
    \E self \in mex :
        /\ Running
        /\ ret' = [op |-> "get", arg |-> self, result |-> MappingEx_get(self)]
        /\ events' = <<>>
        /\ UNCHANGED <<cur, out, logs, panicked, fwActive, held, mex, heap, call>>

DropEx ==
    \E self \in mex, status \in Status, unwinds \in BOOLEAN :
        LET d == Drop_MappingEx(self, status, unwinds) IN
        /\ Running
        /\ mex' = mex \ {self}
        /\ events' = d.events
        /\ heap' = heap \ Freed(d.events)
        /\ call' = IF self.mapping # None
                   THEN UnmapCall(self.mapping.some.addr, status) ELSE call
        /\ fwActive' = IF self.mapping # None
                       THEN FwActiveAfterUnmap(self.mapping.some.addr, status)
                       ELSE fwActive
        /\ panicked' = d.panic
        /\ ret' = [op |-> "drop", arg |-> self, logs0 |-> logs]
        /\ UNCHANGED <<cur, out, logs, held>>

----------------------------------------------------------------------------
(* Typed reads and writes, and flush (proto/pci.rs).  status is what the   *)
(* firmware function returned.  A single-element read hands the firmware   *)
(* uninitialized storage: storage is what it holds after the call, and     *)
(* garbage is what reading it uninitialized would give.                    *)

Uninit == [init |-> FALSE]
Written(v) == [init |-> TRUE, v |-> v]

\* Reading uninitialized storage is undefined: any value may come out.
Garbage(storage) == IF storage.init THEN {storage.v} ELSE Values

assume_init(storage, garbage) == IF storage.init THEN storage.v ELSE garbage

\* After a non-error status the firmware has written the element; after an
\* error status it may or may not have.
FwReadOutcomes ==
    [status : Status \ Errors, storage : {Written(v) : v \in Values}]
    \cup
    [status : Errors, storage : {Uninit} \cup {Written(v) : v \in Values}]

IoCall(fn, width, bar, offset, count, status) ==
    [fn |-> fn, width |-> width, bar |-> bar, offset |-> offset, count |-> count,
     status |-> status]

AssumeInit == [ev |-> "assume_init"]

Single(fn, T, bar, offset, fw, garbage) ==
    [call |-> IoCall(fn, IO_WIDTH(T), bar, offset, 1, fw.status),
     result |-> into_with_val(fw.status, assume_init(fw.storage, garbage)),
     events |-> IF val_called(fw.status) THEN <<AssumeInit>> ELSE <<>>]

Slice(fn, T, bar, offset, count, status) ==
    [call |-> IoCall(fn, IO_WIDTH(T), bar, offset, count, status),
     result |-> into(status),
     events |-> <<>>]

read_config(T, offset, count, status) ==
    Slice("config.read", T, None, offset, count, status)

read_config_single_eager(T, offset, fw, garbage) ==
    [call |-> IoCall("config.read", IO_WIDTH(T), None, offset, 1, fw.status),
     result |-> into_with_val(fw.status, assume_init(fw.storage, garbage)),
     events |-> <<AssumeInit>>]

read_config_single(T, offset, fw, garbage) ==
    Single("config.read", T, None, offset, fw, garbage)

write_config(T, offset, count, status) ==
    Slice("config.write", T, None, offset, count, status)

read_io(T, bar, offset, count, status) ==
    Slice("io.read", T, bar, offset, count, status)

read_io_single(T, bar, offset, fw, garbage) ==
    Single("io.read", T, bar, offset, fw, garbage)

write_io(T, bar, offset, count, status) ==
    Slice("io.write", T, bar, offset, count, status)

read_mem(T, bar, offset, count, status) ==
    Slice("mem.read", T, bar, offset, count, status)

read_mem_single(T, bar, offset, fw, garbage) ==
    Single("mem.read", T, bar, offset, fw, garbage)

write_mem(T, bar, offset, count, status) ==
    Slice("mem.write", T, bar, offset, count, status)

flush(status) ==
    [call |-> [fn |-> "flush", status |-> status],
     result |-> into(status),
     events |-> <<>>]

\* What the caller is left with: the operation, the storage a single-element
\* read handed to the firmware as the call left it, and the result.
Returned(name, storage, result) == [op |-> name, storage |-> storage, result |-> result]

Counts == 0 .. MaxCount

ReadConfig ==
    \E T \in ElementTypes, offset \in Offsets, count \in Counts, status \in Status :
        LET r == read_config(T, offset, count, status) IN
        /\ Running
        /\ call' = r.call
        /\ events' = r.events
        /\ ret' = Returned("read_config", None, r.result)
        /\ UNCHANGED <<cur, out, logs, panicked, fwActive, held, mex, heap>>

ReadConfigSingle ==
    \E T \in ElementTypes, offset \in Offsets, fw \in FwReadOutcomes :
      \E garbage \in Garbage(fw.storage) :
        LET r == read_config_single(T, offset, fw, garbage) IN
        /\ Running
        /\ call' = r.call
        /\ events' = r.events
        /\ ret' = Returned("read_config_single", fw.storage, r.result)
        /\ UNCHANGED <<cur, out, logs, panicked, fwActive, held, mex, heap>>

WriteConfig ==
    \E T \in ElementTypes, offset \in Offsets, count \in Counts, status \in Status :
        LET r == write_config(T, offset, count, status) IN
        /\ Running
        /\ call' = r.call
        /\ events' = r.events
        /\ ret' = Returned("write_config", None, r.result)
        /\ UNCHANGED <<cur, out, logs, panicked, fwActive, held, mex, heap>>

ReadIo ==
    \E T \in ElementTypes, bar \in IoRegister, offset \in Offsets, count \in Counts,
       status \in Status :
        LET r == read_io(T, bar, offset, count, status) IN
        /\ Running
        /\ call' = r.call
        /\ events' = r.events
        /\ ret' = Returned("read_io", None, r.result)
        /\ UNCHANGED <<cur, out, logs, panicked, fwActive, held, mex, heap>>

ReadIoSingle ==
    \E T \in ElementTypes, bar \in IoRegister, offset \in Offsets,
       fw \in FwReadOutcomes :
      \E garbage \in Garbage(fw.storage) :
        LET r == read_io_single(T, bar, offset, fw, garbage) IN
        /\ Running
        /\ call' = r.call
        /\ events' = r.events
        /\ ret' = Returned("read_io_single", fw.storage, r.result)
        /\ UNCHANGED <<cur, out, logs, panicked, fwActive, held, mex, heap>>

WriteIo ==
    \E T \in ElementTypes, bar \in IoRegister, offset \in Offsets, count \in Counts,
       status \in Status :
        LET r == write_io(T, bar, offset, count, status) IN
        /\ Running
        /\ call' = r.call
        /\ events' = r.events
        /\ ret' = Returned("write_io", None, r.result)
        /\ UNCHANGED <<cur, out, logs, panicked, fwActive, held, mex, heap>>

ReadMem ==
    \E T \in ElementTypes, bar \in IoRegister, offset \in Offsets, count \in Counts,
       status \in Status :
        LET r == read_mem(T, bar, offset, count, status) IN
        /\ Running
        /\ call' = r.call
        /\ events' = r.events
        /\ ret' = Returned("read_mem", None, r.result)
        /\ UNCHANGED <<cur, out, logs, panicked, fwActive, held, mex, heap>>

ReadMemSingle ==
    \E T \in ElementTypes, bar \in IoRegister, offset \in Offsets,
       fw \in FwReadOutcomes :
      \E garbage \in Garbage(fw.storage) :
        LET r == read_mem_single(T, bar, offset, fw, garbage) IN
        /\ Running
        /\ call' = r.call
        /\ events' = r.events
        /\ ret' = Returned("read_mem_single", fw.storage, r.result)
        /\ UNCHANGED <<cur, out, logs, panicked, fwActive, held, mex, heap>>

WriteMem ==
    \E T \in ElementTypes, bar \in IoRegister, offset \in Offsets, count \in Counts,
       status \in Status :
        LET r == write_mem(T, bar, offset, count, status) IN
        /\ Running
        /\ call' = r.call
        /\ events' = r.events
        /\ ret' = Returned("write_mem", None, r.result)
        /\ UNCHANGED <<cur, out, logs, panicked, fwActive, held, mex, heap>>

Flush ==
    \E status \in Status :
        LET r == flush(status) IN
        /\ Running
        /\ call' = r.call
        /\ events' = r.events
        /\ ret' = Returned("flush", None, r.result)
        /\ UNCHANGED <<cur, out, logs, panicked, fwActive, held, mex, heap>>

----------------------------------------------------------------------------
(* The specifications. *)

NoCall == [fn |-> "none"]
NoRet == [op |-> "none"]

Init ==
    /\ cur = None
    /\ out = [op |-> "none"]
    /\ logs = <<>>
    /\ panicked = NoPanic
    /\ fwActive = {}
    /\ held = {}
    /\ mex = {}
    /\ heap = {}
    /\ call = NoCall
    /\ ret = NoRet
    /\ events = <<>>

\* The Completion API.
NextCompletion ==
    \/ CNew
    \/ CFromStatus
    \/ CFromValue
    \/ CStatus
    \/ CSplit
    \/ CIgnoreWarning
    \/ CLog
    \/ CUnwrap
    \/ CExpect
    \/ CMap
    \/ CWithStatus

SpecCompletion == Init /\ [][NextCompletion]_vars

\* The mapping lifecycle driven by the caller: map and unmap.
Next ==
    \/ Map
    \/ Unmap

Spec == Init /\ [][Next]_vars

\* The mapping lifecycle driven by MappingEx: map_ex, the accessors, drop.
NextEx ==
    \/ MapEx
    \/ ExMapping
    \/ ExDeviceAddress
    \/ ExGet
    \/ DropEx

SpecEx == Init /\ [][NextEx]_vars

\* Reads, writes and flush.
NextIo ==
    \/ ReadConfig
    \/ ReadConfigSingle
    \/ WriteConfig
    \/ ReadIo
    \/ ReadIoSingle
    \/ WriteIo
    \/ ReadMem
    \/ ReadMemSingle
    \/ WriteMem
    \/ Flush

SpecIo == Init /\ [][NextIo]_vars

----------------------------------------------------------------------------
(* Properties of the model, by claim. *)

Range(seq) == {seq[i] : i \in DOMAIN seq}

\* C1: when the firmware unmap function returns an error status e,
\* PciIO::unmap(m) returns an error result that carries e and the Mapping m
\* itself (address, device address and size as before the call), and the
\* caller still has it.
C1_FailedUnmapReturnsMapping ==
    (ret.op = "unmap" /\ is_error(call.status)) =>
        /\ ~ret.result.ok
        /\ ret.result.status = call.status
        /\ ret.result.data = ret.arg
        /\ ret.arg \in held

C1_Witness ==
    /\ ret.op = "unmap"
    /\ is_error(call.status)
    /\ ret.arg.size > 0
    /\ ret.arg \in held

\* C2: after any sequence of map and unmap calls, the Mappings the caller holds
\* are exactly the bindings the firmware has active, one Mapping per binding: a
\* Mapping released by a non-error unmap is gone, and a Mapping whose unmap
\* failed is still held.
C2_HeldIsActive ==
    /\ {m.addr : m \in held} = fwActive
    /\ Cardinality(held) = Cardinality(fwActive)
    /\ (ret.op = "unmap" /\ ~is_error(call.status)) => ret.arg \notin held
    /\ (ret.op = "unmap" /\ is_error(call.status)) => ret.arg \in held

C2_Witness ==
    /\ ret.op = "unmap"
    /\ call.status \in Warnings
    /\ ret.arg \notin held
    /\ held # {}

\* C6: a map whose firmware call returns a non-error status s returns
\* Ok(Completion{s, Mapping}) with the Mapping's size the granted length and its
\* device address the one the firmware wrote; on an error status it returns an
\* error with that status and no Mapping.
C6_MapGrantedLength ==
    ret.op = "map" =>
        IF ~is_error(call.status)
        THEN /\ ret.result.ok
             /\ ret.result.completion.status = call.status
             /\ Mapping_size(ret.result.completion.result) = call.out.num_bytes
             /\ Mapping_device_address(ret.result.completion.result)
                    = call.out.device_addr
        ELSE /\ ~ret.result.ok
             /\ ret.result.status = call.status
             /\ ret.result.data = UNIT

C6_Witness ==
    /\ ret.op = "map"
    /\ call.status \in Warnings
    /\ call.out.num_bytes < call.num_bytes
    /\ ret.result.ok
    /\ ret.result.completion.result \in held

C3_NoErrorCompletion ==
    /\ cur # None => ~is_error(Completion_status(cur))
    /\ (out.op = "new" /\ is_error(out.arg[1])) =>
           /\ panicked = built_with_error(out.arg[1])
           /\ out.value = None
           /\ cur = out.self

C3_Witness ==
    /\ out.op = "new"
    /\ is_error(out.arg[1])
    /\ panicked # NoPanic

\* C8: c.with_status(w) with w a warning returns a Completion with status w and
\* the payload of c, and sends the sink exactly one record, the status of c, if
\* that is a warning, and none if it is Success.
C8_WithStatusLogsOnce ==
    (out.op = "with_status" /\ out.arg[1] \in Warnings) =>
        /\ panicked = NoPanic
        /\ cur = [status |-> out.arg[1], result |-> out.self.result]
        /\ logs = IF out.self.status \in Warnings
                  THEN Append(out.logs0, out.self.status)
                  ELSE out.logs0

C8_Witness ==
    /\ out.op = "with_status"
    /\ out.arg[1] \in Warnings
    /\ out.self.status \in Warnings
    /\ out.self.status # out.arg[1]
    /\ Len(logs) = Len(out.logs0) + 1

SingleReads == {"read_config_single", "read_io_single", "read_mem_single"}

\* C4: a single-element read reads its storage (assume_init) only if the
\* firmware call returned a non-error status, and never while it is
\* uninitialized; on an error status it returns an Error with that status and
\* no payload.
C4_StorageReadOnlyOnSuccess ==
    ret.op \in SingleReads =>
        /\ AssumeInit \in Range(events) => (~is_error(call.status) /\ ret.storage.init)
        /\ is_error(call.status) => ret.result = Err(call.status, UNIT)
        /\ ~is_error(call.status) =>
               ret.result = Ok([status |-> call.status, result |-> ret.storage.v])

C4_Witness ==
    /\ ret.op \in SingleReads
    /\ is_error(call.status)
    /\ ~ret.storage.init
    /\ events = <<>>

WrappedOps ==
    {"read_config", "read_config_single", "write_config", "read_io", "read_io_single",
     "write_io", "read_mem", "read_mem_single", "write_mem", "flush", "map", "map_ex",
     "unmap"}

\* C5: every wrapped operation whose firmware call returns a non-error status s
\* returns Ok with a Completion whose status is s: a warning is never turned
\* into Success.
C5_WarningSurfaced ==
    (ret.op \in WrappedOps /\ ~is_error(call.status)) =>
        /\ ret.result.ok
        /\ ret.result.completion.status = call.status

\* C7: when the unmap in the drop of a MappingEx returns an error status, the
\* drop completes without a panic and the sink gets exactly one record.
C7_TeardownNonFatal ==
    (ret.op = "drop" /\ is_error(call.status)) =>
        /\ panicked = NoPanic
        /\ Len(logs) = Len(ret.logs0) + 1

\* C10: a live MappingEx holds its Mapping (so mapping() and device_address()
\* do not panic), its binding and its buffer; its drop calls the firmware unmap
\* exactly once, for that Mapping, and frees the buffer only after that call.
C10_MappingExLifecycle ==
    /\ \A x \in mex :
           /\ x.mapping # None
           /\ x.mapping.some.addr \in fwActive
           /\ x.buffer \in heap
    /\ ret.op \in {"mapping", "device_address"} => panicked = NoPanic
    /\ ret.op = "drop" =>
           LET unmaps == {i \in DOMAIN events : events[i].ev = "unmap"}
               frees == {i \in DOMAIN events : events[i].ev = "dealloc"}
           IN  /\ Cardinality(unmaps) = 1
               /\ \A i \in unmaps : events[i].mapping = ret.arg.mapping.some.addr
               /\ \A j \in frees :
                      /\ events[j].addr = ret.arg.buffer
                      /\ \A i \in unmaps : i < j

C10_Witness ==
    /\ ret.op = "drop"
    /\ Len(events) = 2
    /\ events[2] = Dealloc(ret.arg.buffer)
    /\ ret.arg.buffer \notin heap
    /\ mex # {}

=============================================================================
